---- MODULE Spec2Model ----
\* Model of the GameLift server SDK session-lifecycle engine:
\* GameLiftCommonState / GameLiftServerState (gamelift-server-state.ts),
\* the public SDK functions (index.ts) and the Network transport (network.ts).
EXTENDS Integers, Sequences, FiniteSets, TLC

\* ------------------------------------------------------------------ bounds
\* Acknowledgment closures of client calls that may be registered on the
\* channel at once.
MaxCalls == 1
\* Interval timers that healthCheck() may have created and not yet cleared.
MaxTimers == 2
\* GameLiftServerState objects that may be constructed in one run.
MaxInstances == 2
\* Health checks that may be in progress at once: races (predicate against
\* deadline) not yet decided plus health reports awaiting acknowledgment.
MaxRaces == 1

\* ------------------------------------------------------- values and inputs
Undefined == "undefined"
SessionIds == {"s1", "s2"}
TerminationTimes == {"t1"}
\* Raw payloads a peer may put on the wire: nothing, a string JSON.parse
\* rejects, a JSON object.
Payloads == {Undefined, "garbage", "json"}

\* The callbacks a caller may hand to processReady (ProcessParameters).
ProcessParametersSet ==
  { [onStartGameSession |-> "noop", onUpdateGameSession |-> Undefined,
     onProcessTerminate |-> Undefined, onHealthCheck |-> Undefined],
    [onStartGameSession |-> "noop", onUpdateGameSession |-> "noop",
     onProcessTerminate |-> "noop", onHealthCheck |-> "user"],
    [onStartGameSession |-> "throws", onUpdateGameSession |-> "throws",
     onProcessTerminate |-> Undefined, onHealthCheck |-> "user"] }

\* The fields of a freshly constructed GameLiftServerState: every callback
\* member is undefined.
NoCallbacks ==
  [onStartGameSession |-> Undefined, onUpdateGameSession |-> Undefined,
   onProcessTerminate |-> Undefined, onHealthCheck |-> Undefined]

VARIABLES
  instance,            \* GameLiftCommonState.instance: 0 = undefined, n = n-th object
  constructed,         \* number of GameLiftServerState objects constructed
  networking,          \* GameLiftServerState.networking is set
  connectPending,      \* performConnect's promise is not settled yet
  socketConnected,     \* socket.connected
  handlersOn,          \* the listeners of configureClient are still attached
  processReadyFlag,    \* GameLiftServerState.processReadyFlag
  gameSessionId,       \* GameLiftServerState.gameSessionId
  terminationTime,     \* GameLiftServerState.terminationTime
  callbacks,           \* onStartGameSession, onUpdateGameSession, onProcessTerminate, onHealthCheck
  calls,               \* acknowledgment closures registered by emit, not yet invoked
  timers,              \* number of live interval timers created by healthCheck()
  healthcheckTimeout,  \* the timer _healthcheckTimeout refers to is live
  racing,              \* reportHealth races in which neither side has settled
  expired,             \* races the deadline won whose predicate is still running
  last,                \* what the latest step did: operation, outcome, messages, acks
  hist                 \* history of the run, read by the properties only

vars == <<instance, constructed, networking, connectPending, socketConnected,
          handlersOn, processReadyFlag, gameSessionId, terminationTime,
          callbacks, calls, timers, healthcheckTimeout, racing, expired,
          last, hist>>

\* The fields of the ProcessState object.
stateFields == <<processReadyFlag, gameSessionId, terminationTime, callbacks>>
netVars == <<networking, connectPending, socketConnected, handlersOn>>
\* The run state of the health monitor.
timerVars == <<timers, healthcheckTimeout, racing, expired>>

\* ------------------------------------------------------------- observation
Outcome(op, result, emitted, acks, cbs) ==
  [op |-> op,            \* the operation, event or timer that ran
   kind |-> "step",      \* "settle" when an acknowledgment settled the call op
   result |-> result,    \* "ok", "pending", "resolved", or the error raised
   emitted |-> emitted,  \* outbound messages handed to socket.emit by this step
   acks |-> acks,        \* values passed to the channel's acknowledgment function
   cbs |-> cbs,          \* user callbacks and internal methods invoked
   value |-> Undefined,  \* value returned to the caller / yielded by a callback
   responseMessage |-> Undefined,  \* response type the settled call expected
   response |-> Undefined,         \* raw payload the acknowledgment carried
   readyBefore |-> processReadyFlag,  \* processReadyFlag when the step began
   hasAck |-> FALSE]  \* an inbound event came with an acknowledgment function

NoHist ==
  [startSinceReset |-> FALSE,   \* a start-session event was handled since the last
                                \* session termination / transition to not-ready
   startEver |-> FALSE,         \* a start-session event was ever handled
   declared |-> FALSE,          \* a readiness declaration completed and no shutdown
                                \* declaration completed after it
   lastReadyCall |-> "none",    \* the latest of processReady / processEnding invoked
   lastStart |-> Undefined,     \* session id of the latest start-session event handled
   readySince |-> FALSE,        \* a readiness declaration succeeded with ready true
                                \* and ready has been true ever since
   readyCalled |-> FALSE]       \* processReady was ever invoked

Init ==
  /\ instance = 0
  /\ constructed = 0
  /\ networking = FALSE
  /\ connectPending = FALSE
  /\ socketConnected = FALSE
  /\ handlersOn = FALSE
  /\ processReadyFlag = FALSE
  /\ gameSessionId = Undefined
  /\ terminationTime = Undefined
  /\ callbacks = NoCallbacks
  /\ calls = <<>>
  /\ timers = 0
  /\ healthcheckTimeout = FALSE
  /\ racing = 0
  /\ expired = 0
  /\ last = Outcome("init", "ok", <<>>, <<>>, <<>>)
  /\ hist = NoHist

\* ----------------------------------------------------------- small helpers
\* A step that changes nothing but what the caller observes.
Throw(op, error) ==
  /\ last' = Outcome(op, error, <<>>, <<>>, <<>>)
  /\ UNCHANGED <<instance, constructed, netVars, stateFields, calls, timerVars, hist>>

RemoveAt_head(s, i) == Tail(s)

\* s without its i-th element.
RemoveAt(s, i) == [j \in 1..(Len(s) - 1) |-> IF j < i THEN s[j] ELSE s[j + 1]]

\* ---------------------------------------------------------------- Network
assertNetworkInitialized_always == TRUE

\* Network.connected(), behind GameLiftServerState.assertNetworkInitialized().
assertNetworkInitialized == networking /\ socketConnected

\* Network.parseJsonDataIntoMessage: JSON.parse / fromObject failures are
\* swallowed and give null, except for the bare ticket id of a backfill reply.
parseJsonDataIntoMessage(message, data) ==
  IF data = "json" THEN "message"
  ELSE IF message = "BackfillMatchmakingResponse" THEN "message"
  ELSE "null"

emitAck_noPayloadCheck(responseMessage, success, response) ==
  IF ~success
  THEN IF response # Undefined
          /\ parseJsonDataIntoMessage("GameLiftResponse", response) = "null"
       THEN "TypeError"
       ELSE "ServiceCallFailedError"
  ELSE "resolved"

\* The acknowledgment closure Network.emit hands to socket.emit: how the
\* call's promise is settled by (success, response). "TypeError" is the
\* closure throwing before it settles the promise.
emitAck(responseMessage, success, response) ==
  IF ~success
  THEN IF response # Undefined
          /\ parseJsonDataIntoMessage("GameLiftResponse", response) = "null"
       THEN "TypeError"
       ELSE "ServiceCallFailedError"
  ELSE IF responseMessage # Undefined /\ response = Undefined
       THEN "ServiceCallFailedError"
       ELSE "resolved"

\* What the call's promise is fulfilled with: the decoded response when a
\* response type was given (null when the payload did not decode), else null.
resolvedValue(responseMessage, settled, response) ==
  IF settled # "resolved" THEN Undefined
  ELSE IF responseMessage = Undefined THEN "null"
  ELSE parseJsonDataIntoMessage(responseMessage, response)

\* Network.emit: the message goes out (or into the socket's send buffer while
\* disconnected) and its acknowledgment closure is registered.
NewCall(op, responseMessage) ==
  [op |-> op, responseMessage |-> responseMessage, sent |-> socketConnected]

\* The client calls awaiting their acknowledgment.
ClientCalls == SelectSeq(calls, LAMBDA c : c.op # "reportHealth")

CanEmit == Len(ClientCalls) < MaxCalls

\* Network.reportHealth -> emit: the report's acknowledgment closure is
\* registered like any other (health reports are listed first; the order of
\* the list carries no meaning).
SendReport == <<NewCall("reportHealth", Undefined)>> \o calls

\* A health check may start: its report will find room.
CanReport == (Len(calls) - Len(ClientCalls)) + racing < MaxRaces

\* An asynchronous client call that passed its preconditions: one message is
\* emitted and the call is left awaiting its acknowledgment.
Send(op, type, sid, responseMessage) ==
  /\ CanEmit
  /\ calls' = Append(calls, NewCall(op, responseMessage))
  /\ last' = Outcome(op, "pending", <<[type |-> type, body |-> sid]>>, <<>>, <<>>)

\* ------------------------------------------------ singleton (common state)
getInstance_noCheck == "ok"

\* GameLiftCommonState.getInstance
getInstance == IF instance = 0 THEN "NotInitializedError" ELSE "ok"

\* GameLiftCommonState.setInstance
setInstance == IF instance # 0 THEN "AlreadyInitializedError" ELSE "ok"

createInstanceResult_overwrite == "ok"

\* GameLiftServerState.createInstance: the outcome of the lookup followed by
\* setInstance.
createInstanceResult ==
  IF getInstance = "ok" THEN "AlreadyInitializedError" ELSE setInstance

\* new GameLiftServerState() installed as the singleton.
InstallFresh(net) ==
  /\ constructed' = constructed + 1
  /\ instance' = constructed + 1
  /\ processReadyFlag' = FALSE
  /\ gameSessionId' = Undefined
  /\ terminationTime' = Undefined
  /\ callbacks' = NoCallbacks
  /\ healthcheckTimeout' = FALSE
  /\ networking' = net
  /\ connectPending' = net
  /\ handlersOn' = net
  /\ socketConnected' = FALSE
  /\ UNCHANGED <<calls, timers, racing, expired, hist>>

createInstance ==
  /\ createInstanceResult = "ok" => constructed < MaxInstances
  /\ IF createInstanceResult = "ok"
     THEN InstallFresh(FALSE)
     ELSE UNCHANGED <<instance, constructed, netVars, stateFields, calls, timerVars, hist>>
  /\ last' = Outcome("createInstance", createInstanceResult, <<>>, <<>>, <<>>)

\* GameLiftServerState.initializeNetworking: a socket is created, the Network
\* subscribes its listeners (configureClient) and performConnect starts.
initializeNetworking ==
  /\ instance # 0
  /\ ~networking
  /\ networking' = TRUE
  /\ handlersOn' = TRUE
  /\ connectPending' = TRUE
  /\ socketConnected' = FALSE
  /\ last' = Outcome("initializeNetworking", "pending", <<>>, <<>>, <<>>)
  /\ UNCHANGED <<instance, constructed, stateFields, calls, timerVars, hist>>

\* index.ts initSdk: createInstance, then initializeNetworking.
initSdk ==
  /\ createInstanceResult = "ok" => constructed < MaxInstances
  /\ IF createInstanceResult = "ok"
     THEN /\ InstallFresh(TRUE)
          /\ last' = Outcome("initSdk", "pending", <<>>, <<>>, <<>>)
     ELSE Throw("initSdk", createInstanceResult)

\* ------------------------------------------------------ channel life cycle
\* The socket's "connect" event; buffered packets are flushed.
Connect ==
  /\ networking
  /\ ~socketConnected
  /\ socketConnected' = TRUE
  /\ connectPending' = FALSE
  /\ calls' = [i \in 1..Len(calls) |-> [calls[i] EXCEPT !.sent = TRUE]]
  /\ last' = Outcome("connect", IF connectPending THEN "resolved" ELSE "ok", <<>>, <<>>, <<>>)
  /\ UNCHANGED <<instance, constructed, networking, handlersOn, stateFields, timerVars, hist>>

connectErrorSettles_resolved == "resolved"

\* performConnect: socket.on("error", reject); socket.on("connect_error", reject).
connectErrorSettles == "rejected"

instanceAfterConnectError_uninstalled(current) == 0

\* initSdk awaits initializeNetworking without try/catch: a rejected connection
\* leaves the singleton that createInstance installed.
instanceAfterConnectError(current) == current

\* The socket's "connect_error" / "error" event while performConnect waits.
ConnectError ==
  /\ networking
  /\ ~socketConnected
  /\ connectPending
  /\ connectPending' = FALSE
  /\ instance' = instanceAfterConnectError(instance)
  /\ last' = Outcome("connect", connectErrorSettles, <<>>, <<>>, <<>>)
  /\ UNCHANGED <<constructed, networking, socketConnected, handlersOn,
                 stateFields, calls, timerVars, hist>>

listenersAfterClose_kept(attached) == attached

\* Network.onClose: socket.off() removes every listener of the socket, the
\* three inbound-event listeners included.
listenersAfterClose(attached) == FALSE

settledOnClose_rejectsPending(pending) == [i \in 1..Len(pending) |-> pending[i].op]

\* The calls whose promise Network.onClose settles: it runs socket.off() and
\* touches no pending promise.
settledOnClose(pending) == <<>>

\* The socket's "disconnect" event: Network.onClose runs socket.off(). The
\* acknowledgments of the packets already sent can no longer arrive.
Disconnect ==
  /\ socketConnected
  /\ socketConnected' = FALSE
  /\ handlersOn' = listenersAfterClose(handlersOn)
  /\ calls' = SelectSeq(calls, LAMBDA c : ~c.sent)
  /\ last' = Outcome("disconnect", "ok", <<>>, <<>>,
                     settledOnClose(SelectSeq(calls, LAMBDA c : c.sent)))
  /\ UNCHANGED <<instance, constructed, networking, connectPending, stateFields,
                 timerVars, hist>>

\* ------------------------------------------- readiness and shutdown calls
\* ProcessParameters -> the four callback members; onHealthCheck falls back
\* to defaultHealthCheck.
Register(p) ==
  [onStartGameSession |-> p.onStartGameSession,
   onUpdateGameSession |-> p.onUpdateGameSession,
   onProcessTerminate |-> p.onProcessTerminate,
   onHealthCheck |-> IF p.onHealthCheck = Undefined THEN "defaultHealthCheck"
                     ELSE p.onHealthCheck]

processReadyFlagOnCall_late(flag) == flag

\* processReady's first statement: this.processReadyFlag = true.
processReadyFlagOnCall(flag) == TRUE

processEndingFlagOnCall_keep(flag) == flag

\* processEnding's first statement: this.processReadyFlag = false.
processEndingFlagOnCall(flag) == FALSE

\* index.ts processReady -> GameLiftServerState.processReady, up to its await.
processReady ==
  \E p \in ProcessParametersSet :
    IF getInstance # "ok"
    THEN Throw("processReady", getInstance)
    ELSE /\ processReadyFlag' = processReadyFlagOnCall(processReadyFlag)
         /\ callbacks' = Register(p)
         /\ hist' = [hist EXCEPT !.lastReadyCall = "processReady", !.readyCalled = TRUE]
         /\ IF ~assertNetworkInitialized
            THEN /\ last' = Outcome("processReady", "GameLiftServerNotInitializedError",
                                    <<>>, <<>>, <<>>)
                 /\ UNCHANGED calls
            ELSE Send("processReady", "ProcessReady", Undefined, Undefined)
         /\ UNCHANGED <<instance, constructed, netVars, gameSessionId,
                        terminationTime, timerVars>>

\* GameLiftServerState.processEnding, up to its await.
processEnding ==
  /\ instance # 0
  /\ processReadyFlag' = processEndingFlagOnCall(processReadyFlag)
  /\ hist' = [hist EXCEPT !.lastReadyCall = "processEnding",
                          !.readySince = FALSE,
                          !.startSinceReset = IF processReadyFlag THEN FALSE ELSE @]
  /\ IF ~assertNetworkInitialized
     THEN /\ last' = Outcome("processEnding", "GameLiftServerNotInitializedError",
                             <<>>, <<>>, <<>>)
          /\ UNCHANGED calls
     ELSE Send("processEnding", "ProcessEnding", Undefined, Undefined)
  /\ UNCHANGED <<instance, constructed, netVars, gameSessionId, terminationTime,
                 callbacks, timerVars>>

\* ------------------------------------------------ precondition sequences
hasGameSession_always == TRUE

\* The test `!this.gameSessionId` of the session-bound methods, negated.
hasGameSession == gameSessionId # Undefined

activateGameSessionCheck_networkFirst ==
  IF ~assertNetworkInitialized THEN "GameLiftServerNotInitializedError"
  ELSE IF ~processReadyFlag THEN "ProcessNotReadyError"
  ELSE IF ~hasGameSession THEN "NoGameSessionError"
  ELSE "ok"

\* GameLiftServerState.activateGameSession: ready, then network, then session.
activateGameSessionCheck ==
  IF ~processReadyFlag THEN "ProcessNotReadyError"
  ELSE IF ~assertNetworkInitialized THEN "GameLiftServerNotInitializedError"
  ELSE IF ~hasGameSession THEN "NoGameSessionError"
  ELSE "ok"

terminateGameSessionCheck_noSession ==
  IF ~assertNetworkInitialized THEN "GameLiftServerNotInitializedError" ELSE "ok"

\* GameLiftServerState.terminateGameSession: network, then session.
terminateGameSessionCheck ==
  IF ~assertNetworkInitialized THEN "GameLiftServerNotInitializedError"
  ELSE IF ~hasGameSession THEN "NoGameSessionError"
  ELSE "ok"

\* GameLiftServerState.acceptPlayerSession: network, then session.
acceptPlayerSessionCheck ==
  IF ~assertNetworkInitialized THEN "GameLiftServerNotInitializedError"
  ELSE IF ~hasGameSession THEN "NoGameSessionError"
  ELSE "ok"

\* GameLiftServerState.removePlayerSession: network, then session.
removePlayerSessionCheck ==
  IF ~assertNetworkInitialized THEN "GameLiftServerNotInitializedError"
  ELSE IF ~hasGameSession THEN "NoGameSessionError"
  ELSE "ok"

\* GameLiftServerState.updatePlayerSessionCreationPolicy: network, then session.
updatePlayerSessionCreationPolicyCheck ==
  IF ~assertNetworkInitialized THEN "GameLiftServerNotInitializedError"
  ELSE IF ~hasGameSession THEN "NoGameSessionError"
  ELSE "ok"

\* describePlayerSessions, backfillMatchmaking, stopMatchmaking and
\* getInstanceCertificate of GameLiftServerState: network only.
networkOnlyCheck ==
  IF ~assertNetworkInitialized THEN "GameLiftServerNotInitializedError" ELSE "ok"

\* The test `!serverState.processReady` of index.ts reads the processReady
\* METHOD of the state object, which is always defined.
processReadyMember == TRUE

\* index.ts getGameSessionId / describePlayerSessions: the readiness test.
sdkReadyCheck == IF ~processReadyMember THEN "ProcessNotReadyError" ELSE "ok"

ClientCall_sendFirst(op, check, type, body, responseMessage) ==
  /\ CanEmit
  /\ calls' = Append(calls, NewCall(op, responseMessage))
  /\ last' = Outcome(op, IF check # "ok" THEN check ELSE "pending",
                     <<[type |-> type, body |-> body]>>, <<>>, <<>>)
  /\ UNCHANGED <<instance, constructed, netVars, stateFields, timerVars, hist>>

\* A client call on the installed state object: its precondition sequence,
\* then one emit.
ClientCall(op, check, type, body, responseMessage) ==
  /\ IF check # "ok"
     THEN /\ last' = Outcome(op, check, <<>>, <<>>, <<>>)
          /\ UNCHANGED calls
     ELSE Send(op, type, body, responseMessage)
  /\ UNCHANGED <<instance, constructed, netVars, stateFields, timerVars, hist>>

\* ------------------------------------------------------ session operations
\* index.ts activateGameSession -> GameLiftServerState.activateGameSession.
activateGameSession ==
  IF getInstance # "ok"
  THEN Throw("activateGameSession", getInstance)
  ELSE ClientCall("activateGameSession", activateGameSessionCheck,
                  "GameSessionActivate", gameSessionId, Undefined)

\* index.ts acceptPlayerSession -> GameLiftServerState.acceptPlayerSession.
acceptPlayerSession ==
  IF getInstance # "ok"
  THEN Throw("acceptPlayerSession", getInstance)
  ELSE ClientCall("acceptPlayerSession", acceptPlayerSessionCheck,
                  "AcceptPlayerSession", gameSessionId, Undefined)

\* GameLiftServerState.removePlayerSession.
removePlayerSession ==
  /\ instance # 0
  /\ ClientCall("removePlayerSession", removePlayerSessionCheck,
                "RemovePlayerSession", gameSessionId, Undefined)

terminateGameSession_clearsSession ==
  /\ instance # 0
  /\ IF terminateGameSessionCheck # "ok"
     THEN /\ last' = Outcome("terminateGameSession", terminateGameSessionCheck,
                             <<>>, <<>>, <<>>)
          /\ UNCHANGED <<calls, gameSessionId>>
     ELSE /\ Send("terminateGameSession", "GameSessionTerminate", gameSessionId,
                  Undefined)
          /\ gameSessionId' = Undefined
  /\ UNCHANGED <<instance, constructed, netVars, processReadyFlag, terminationTime,
                 callbacks, timerVars, hist>>

\* GameLiftServerState.terminateGameSession.
terminateGameSession ==
  /\ instance # 0
  /\ ClientCall("terminateGameSession", terminateGameSessionCheck,
                "GameSessionTerminate", gameSessionId, Undefined)

\* GameLiftServerState.updatePlayerSessionCreationPolicy.
updatePlayerSessionCreationPolicy ==
  /\ instance # 0
  /\ ClientCall("updatePlayerSessionCreationPolicy",
                updatePlayerSessionCreationPolicyCheck,
                "UpdatePlayerSessionCreationPolicy", gameSessionId, Undefined)

\* index.ts describePlayerSessions -> GameLiftServerState.describePlayerSessions.
describePlayerSessions ==
  IF getInstance # "ok"
  THEN Throw("describePlayerSessions", getInstance)
  ELSE IF sdkReadyCheck # "ok"
  THEN Throw("describePlayerSessions", sdkReadyCheck)
  ELSE ClientCall("describePlayerSessions", networkOnlyCheck,
                  "DescribePlayerSessionsRequest", Undefined,
                  "DescribePlayerSessionsResponse")

\* GameLiftServerState.backfillMatchmaking.
backfillMatchmaking ==
  /\ instance # 0
  /\ ClientCall("backfillMatchmaking", networkOnlyCheck,
                "BackfillMatchmakingRequest", Undefined,
                "BackfillMatchmakingResponse")

\* GameLiftServerState.stopMatchmaking.
stopMatchmaking ==
  /\ instance # 0
  /\ ClientCall("stopMatchmaking", networkOnlyCheck,
                "StopMatchmakingRequest", Undefined, Undefined)

\* index.ts getInstanceCertificate -> GameLiftServerState.getInstanceCertificate.
getInstanceCertificate ==
  IF getInstance # "ok"
  THEN Throw("getInstanceCertificate", getInstance)
  ELSE ClientCall("getInstanceCertificate", networkOnlyCheck,
                  "GetInstanceCertificate", Undefined,
                  "GetInstanceCertificateResponse")

\* index.ts getGameSessionId -> GameLiftServerState.getGameSessionId.
getGameSessionId ==
  IF getInstance # "ok"
  THEN Throw("getGameSessionId", getInstance)
  ELSE IF sdkReadyCheck # "ok"
  THEN Throw("getGameSessionId", sdkReadyCheck)
  ELSE IF ~hasGameSession
  THEN Throw("getGameSessionId", "NoGameSessionError")
  ELSE /\ last' = [Outcome("getGameSessionId", "ok", <<>>, <<>>, <<>>)
                     EXCEPT !.value = gameSessionId]
       /\ UNCHANGED <<instance, constructed, netVars, stateFields, calls,
                      timerVars, hist>>

\* GameLiftServerState.getTerminationTime.
getTerminationTime ==
  /\ instance # 0
  /\ last' = [Outcome("getTerminationTime", "ok", <<>>, <<>>, <<>>)
                EXCEPT !.value = terminationTime]
  /\ UNCHANGED <<instance, constructed, netVars, stateFields, calls, timerVars, hist>>

\* ------------------------------------------- acknowledgments and health
\* `await this.networking.processReady(...)`: the statements after the await
\* run only when the awaited promise is fulfilled.
continuesAfterAwait(settled) == settled = "resolved"

\* GameLiftServerState.healthCheck: setInterval, handle kept in
\* _healthcheckTimeout.
healthCheck ==
  /\ timers < MaxTimers
  /\ timers' = timers + 1
  /\ healthcheckTimeout' = TRUE
  /\ UNCHANGED <<racing, expired>>

\* The channel invokes the acknowledgment closure of one outstanding call;
\* the caller's continuation after its await runs with it.
Ack ==
  \E i \in 1..Len(calls), success \in BOOLEAN, response \in Payloads :
    /\ socketConnected
    /\ calls[i].sent
    /\ LET c == calls[i]
           settled == emitAck(c.responseMessage, success, response)
           starts == c.op = "processReady" /\ continuesAfterAwait(settled)
       IN /\ calls' = RemoveAt(calls, i)
          /\ IF starts THEN healthCheck ELSE UNCHANGED timerVars
          /\ last' = [Outcome(c.op, IF settled = "TypeError" THEN "unsettled" ELSE settled,
                              <<>>, <<success>>,
                              IF starts THEN <<"healthCheck">> ELSE <<>>)
                        EXCEPT !.kind = "settle",
                               !.value = resolvedValue(c.responseMessage, settled, response),
                               !.responseMessage = c.responseMessage,
                               !.response = response]
          /\ hist' = [hist EXCEPT
               !.readySince = IF starts /\ processReadyFlag THEN TRUE ELSE @,
               !.declared = IF c.op = "processReady" /\ settled = "resolved" THEN TRUE
                            ELSE IF c.op = "processEnding" /\ settled = "resolved" THEN FALSE
                            ELSE @,
               !.startSinceReset =
                  IF c.op = "terminateGameSession" /\ settled = "resolved" THEN FALSE ELSE @]
    /\ UNCHANGED <<instance, constructed, netVars, stateFields>>

\* What invoking the health predicate does inside the tick: defaultHealthCheck
\* is already fulfilled with true; a user predicate returns a promise that is
\* still pending, or throws before returning one.
HealthOutcomes(cb) ==
  IF cb = "defaultHealthCheck" THEN {"true"} ELSE {"pending", "throws"}

\* The message Network.reportHealth emits for a health status.
ReportHealth(healthy) == [type |-> "ReportHealth", body |-> healthy]

raceValue_awaitPredicate(winner, healthy) == healthy

\* Promise.race([onHealthCheck(), timerPromise]): the status handed to
\* networking.reportHealth when `winner` settles first and the predicate's
\* result is (or will be) `healthy`.
raceValue(winner, healthy) == IF winner = "deadline" THEN "false" ELSE healthy

\* One firing of the interval callback of one live timer (the one
\* _healthcheckTimeout refers to, or an earlier one whose handle was
\* overwritten). Ready: reportHealth starts. Not ready:
\* clearInterval(this._healthcheckTimeout) stops the timer the handle refers
\* to, if it is still live.
Tick ==
  \E own \in BOOLEAN :
    /\ IF own THEN healthcheckTimeout ELSE timers > (IF healthcheckTimeout THEN 1 ELSE 0)
    /\ IF processReadyFlag
       THEN \E h \in HealthOutcomes(callbacks.onHealthCheck) :
              /\ IF h = "throws"
                 THEN /\ last' = Outcome("tick", "unhandledRejection", <<>>, <<>>,
                                         <<"onHealthCheck">>)
                      /\ UNCHANGED <<calls, racing>>
                 ELSE IF h = "pending"
                 THEN /\ CanReport
                      /\ racing + expired < MaxRaces
                      /\ racing' = racing + 1
                      /\ last' = Outcome("tick", "ok", <<>>, <<>>, <<"onHealthCheck">>)
                      /\ UNCHANGED calls
                 ELSE /\ CanReport
                      /\ calls' = SendReport
                      /\ last' = [Outcome("tick", "ok",
                                          <<ReportHealth(raceValue("predicate", h))>>,
                                          <<>>, <<"onHealthCheck">>)
                                    EXCEPT !.value = h]
                      /\ UNCHANGED racing
              /\ UNCHANGED <<timers, healthcheckTimeout, expired>>
       ELSE /\ timers' = IF healthcheckTimeout THEN timers - 1 ELSE timers
            /\ healthcheckTimeout' = FALSE
            /\ last' = Outcome("tick", "ok", <<>>, <<>>, <<"clearInterval">>)
            /\ UNCHANGED <<calls, racing, expired>>
    /\ UNCHANGED <<instance, constructed, netVars, stateFields, hist>>

\* The user's health predicate settles before the deadline: a boolean is
\* reported; a rejection is caught and logged.
HealthPredicateSettles ==
  \E h \in {"true", "false", "rejects"} :
    /\ racing > 0
    /\ racing' = racing - 1
    /\ IF h = "rejects"
       THEN /\ last' = [Outcome("healthPredicate", "caught", <<>>, <<>>, <<>>)
                          EXCEPT !.value = h]
            /\ UNCHANGED calls
       ELSE /\ calls' = SendReport
            /\ last' = [Outcome("healthPredicate", "ok",
                                <<ReportHealth(raceValue("predicate", h))>>, <<>>, <<>>)
                          EXCEPT !.value = h]
    /\ UNCHANGED <<instance, constructed, netVars, stateFields, timers,
                   healthcheckTimeout, expired, hist>>

deadlineSettlesRace_never == FALSE

\* timerPromise: setTimeout(() => resolve(false), HEALTHCHECK_TIMEOUT) takes
\* part in the race.
deadlineSettlesRace == TRUE

\* The deadline timer of a race fires first: resolve(false). The predicate
\* is still running and will yield `eventual`.
HealthDeadline ==
  \E eventual \in {"true", "false"} :
    /\ deadlineSettlesRace
    /\ racing > 0
    /\ racing' = racing - 1
    /\ expired' = expired + 1
    /\ calls' = SendReport
    /\ last' = Outcome("healthDeadline", "ok",
                       <<ReportHealth(raceValue("deadline", eventual))>>, <<>>, <<>>)
    /\ UNCHANGED <<instance, constructed, netVars, stateFields, timers,
                   healthcheckTimeout, hist>>

\* The predicate of a race the deadline won settles at last: the race is
\* over, nobody listens.
HealthPredicateLate ==
  \E h \in {"true", "false", "rejects"} :
    /\ expired > 0
    /\ expired' = expired - 1
    /\ last' = [Outcome("healthPredicateLate", "ok", <<>>, <<>>, <<>>)
                  EXCEPT !.value = h]
    /\ UNCHANGED <<instance, constructed, netVars, stateFields, calls, timers,
                   healthcheckTimeout, racing, hist>>

\* ---------------------------------------------------------- inbound events
Subscribed_whenConnected == instance # 0 /\ networking /\ socketConnected

\* An inbound event reaches its listener: the socket is connected and the
\* listener registered by setupClientHandlers is still attached.
Subscribed == instance # 0 /\ networking /\ socketConnected /\ handlersOn

gameSessionIdOnStart_first(current, received) ==
  IF current = Undefined THEN received ELSE current

\* onStartGameSessionHandler: this.gameSessionId = gameSession.gameSessionId.
gameSessionIdOnStart(current, received) == received

sessionSeenByCallback_stale(current, received) == current

\* The gameSessionId field at the moment onStartGameSession(gameSession) is
\* invoked: the assignment precedes the call.
sessionSeenByCallback(current, received) == gameSessionIdOnStart(current, received)

returnsAfterNotReadyAck_early == TRUE

\* `if (!this.processReadyFlag) { ack(false); }` has no return statement.
returnsAfterNotReadyAck == FALSE

awaitsCallback_async == TRUE

\* The start and update handlers are synchronous functions: they call the
\* user callback without awaiting it, so the handler has returned, ack(true)
\* included, before the channel's listener loop delivers another event.
awaitsCallback == FALSE

\* Network.onStartGameSession -> GameLiftServerState.onStartGameSessionHandler.
StartGameSession ==
  \E data \in SessionIds \cup {"garbage"}, hasAck \in BOOLEAN :
    /\ Subscribed
    /\ IF parseJsonDataIntoMessage("ActivateGameSession",
                                   IF data \in SessionIds THEN "json" ELSE data) = "null"
       THEN /\ last' = [Outcome("StartGameSession", "TypeError", <<>>, <<>>, <<>>)
                          EXCEPT !.value = "null"]
            /\ UNCHANGED <<gameSessionId, hist>>
       ELSE IF ~processReadyFlag /\ returnsAfterNotReadyAck
       THEN /\ last' = [Outcome("StartGameSession", "ok", <<>>,
                                IF hasAck THEN <<FALSE>> ELSE <<>>, <<>>)
                          EXCEPT !.hasAck = hasAck]
            /\ UNCHANGED <<gameSessionId, hist>>
       ELSE LET early == IF ~processReadyFlag THEN <<FALSE>> ELSE <<>>
                cb == callbacks.onStartGameSession
                handlerAcks == IF cb = "noop" /\ ~awaitsCallback
                               THEN early \o <<TRUE>> ELSE early
            IN /\ gameSessionId' = gameSessionIdOnStart(gameSessionId, data)
               /\ last' = [Outcome("StartGameSession",
                                   IF cb = "noop"
                                   THEN (IF awaitsCallback THEN "suspended" ELSE "ok")
                                   ELSE IF cb = Undefined THEN "TypeError" ELSE "callbackError",
                                   <<>>,
                                   IF hasAck THEN handlerAcks ELSE <<>>,
                                   IF cb = Undefined THEN <<>> ELSE <<"onStartGameSession">>)
                             EXCEPT !.value = IF cb = Undefined THEN Undefined
                                              ELSE sessionSeenByCallback(gameSessionId, data),
                                    !.hasAck = hasAck]
               /\ hist' = [hist EXCEPT !.startSinceReset = TRUE, !.startEver = TRUE,
                                       !.lastStart = data]
    /\ UNCHANGED <<instance, constructed, netVars, processReadyFlag, terminationTime,
                   callbacks, calls, timerVars>>

\* Network.onUpdateGameSession -> GameLiftServerState.onUpdateGameSessionHandler.
\* An undecodable payload reaches the handler as null.
UpdateGameSession ==
  \E data \in {"json", "garbage"}, hasAck \in BOOLEAN :
    /\ Subscribed
    /\ IF ~processReadyFlag /\ returnsAfterNotReadyAck
       THEN last' = [Outcome("UpdateGameSession", "ok", <<>>,
                             IF hasAck THEN <<FALSE>> ELSE <<>>, <<>>)
                       EXCEPT !.hasAck = hasAck]
       ELSE LET early == IF ~processReadyFlag THEN <<FALSE>> ELSE <<>>
                cb == callbacks.onUpdateGameSession
                handlerAcks == IF cb = "throws" \/ (cb # Undefined /\ awaitsCallback)
                               THEN early ELSE early \o <<TRUE>>
            IN last' = [Outcome("UpdateGameSession",
                                IF cb = "throws" THEN "callbackError"
                                ELSE IF cb # Undefined /\ awaitsCallback THEN "suspended"
                                ELSE "ok",
                                <<>>,
                                IF hasAck THEN handlerAcks ELSE <<>>,
                                IF cb = Undefined THEN <<>> ELSE <<"onUpdateGameSession">>)
                          EXCEPT !.value = parseJsonDataIntoMessage("UpdateGameSession", data),
                                 !.hasAck = hasAck]
    /\ UNCHANGED <<instance, constructed, netVars, stateFields, calls, timerVars, hist>>

terminateReturnsEarly_never(ready) == FALSE

\* onTerminateSessionHandler: `if (!this.processReadyFlag) { return; }`.
terminateReturnsEarly(ready) == ~ready

\* Network.onTerminateProcess -> GameLiftServerState.onTerminateSessionHandler.
TerminateProcess ==
  \E data \in TerminationTimes \cup {"garbage"} :
    /\ Subscribed
    /\ IF parseJsonDataIntoMessage("TerminateProcess",
                                   IF data \in TerminationTimes THEN "json" ELSE data) = "null"
       THEN /\ last' = Outcome("TerminateProcess", "TypeError", <<>>, <<>>, <<>>)
            /\ UNCHANGED terminationTime
       ELSE IF terminateReturnsEarly(processReadyFlag)
       THEN /\ last' = [Outcome("TerminateProcess", "ok", <<>>, <<>>, <<>>)
                          EXCEPT !.value = data]
            /\ UNCHANGED terminationTime
       ELSE /\ terminationTime' = data
            /\ last' = [Outcome("TerminateProcess", "ok", <<>>, <<>>,
                                IF callbacks.onProcessTerminate = Undefined THEN <<>>
                                ELSE <<"onProcessTerminate">>)
                          EXCEPT !.value = data]
    /\ UNCHANGED <<instance, constructed, netVars, processReadyFlag, gameSessionId,
                   callbacks, calls, timerVars, hist>>

\* ----------------------------------------------------------- specification
Next ==
  \/ createInstance
  \/ initializeNetworking
  \/ initSdk
  \/ Connect
  \/ ConnectError
  \/ Disconnect
  \/ processReady
  \/ processEnding
  \/ activateGameSession
  \/ acceptPlayerSession
  \/ removePlayerSession
  \/ terminateGameSession
  \/ updatePlayerSessionCreationPolicy
  \/ describePlayerSessions
  \/ backfillMatchmaking
  \/ stopMatchmaking
  \/ getInstanceCertificate
  \/ getGameSessionId
  \/ getTerminationTime
  \/ Ack
  \/ Tick
  \/ HealthPredicateSettles
  \/ HealthDeadline
  \/ HealthPredicateLate
  \/ StartGameSession
  \/ UpdateGameSession
  \/ TerminateProcess

Spec == Init /\ [][Next]_vars

\* The session life cycle on its own: the singleton, the channel, the
\* readiness and shutdown declarations, the start-session event and the
\* session operations, without the health timer's firings and the update and
\* terminate events (none of which writes a field these operations read).
NextLifecycle ==
  \/ createInstance
  \/ initializeNetworking
  \/ initSdk
  \/ Connect
  \/ ConnectError
  \/ Disconnect
  \/ processReady
  \/ processEnding
  \/ activateGameSession
  \/ acceptPlayerSession
  \/ removePlayerSession
  \/ terminateGameSession
  \/ updatePlayerSessionCreationPolicy
  \/ describePlayerSessions
  \/ getInstanceCertificate
  \/ getGameSessionId
  \/ Ack
  \/ StartGameSession

SpecLifecycle == Init /\ [][NextLifecycle]_vars

\* The health monitor on its own: one state object on its channel, the
\* readiness and shutdown declarations that start and stop the interval
\* timer, the timer's firings and the race of each health check.
NextHealth ==
  \/ initSdk
  \/ Connect
  \/ Disconnect
  \/ processReady
  \/ processEnding
  \/ Ack
  \/ Tick
  \/ HealthPredicateSettles
  \/ HealthDeadline
  \/ HealthPredicateLate

SpecHealth == Init /\ [][NextHealth]_vars

\* The inbound events on their own: one state object on its channel, the
\* readiness and shutdown declarations and the three server-initiated events.
NextEvents ==
  \/ initSdk
  \/ Connect
  \/ Disconnect
  \/ processReady
  \/ processEnding
  \/ Ack
  \/ StartGameSession
  \/ UpdateGameSession
  \/ TerminateProcess
  \/ getGameSessionId
  \/ getTerminationTime

SpecEvents == Init /\ [][NextEvents]_vars

\* Every client operation of the state object on a channel that stays up,
\* with the start-session event that gives them a session.
NextClient ==
  \/ initSdk
  \/ Connect
  \/ processReady
  \/ processEnding
  \/ activateGameSession
  \/ acceptPlayerSession
  \/ removePlayerSession
  \/ terminateGameSession
  \/ updatePlayerSessionCreationPolicy
  \/ describePlayerSessions
  \/ backfillMatchmaking
  \/ stopMatchmaking
  \/ getInstanceCertificate
  \/ getGameSessionId
  \/ getTerminationTime
  \/ Ack
  \/ StartGameSession

SpecClient == Init /\ [][NextClient]_vars

\* Everything that runs on an installed, connected state object: client
\* operations, inbound events and the health monitor.
NextFrame ==
  \/ initSdk
  \/ Connect
  \/ processReady
  \/ processEnding
  \/ activateGameSession
  \/ acceptPlayerSession
  \/ removePlayerSession
  \/ terminateGameSession
  \/ updatePlayerSessionCreationPolicy
  \/ describePlayerSessions
  \/ backfillMatchmaking
  \/ stopMatchmaking
  \/ getGameSessionId
  \/ getTerminationTime
  \/ Ack
  \/ Tick
  \/ HealthPredicateSettles
  \/ HealthDeadline
  \/ HealthPredicateLate
  \/ StartGameSession
  \/ UpdateGameSession
  \/ TerminateProcess

SpecFrame == Init /\ [][NextFrame]_vars

\* Installing the state object and connecting its transport.
NextConnect ==
  \/ createInstance
  \/ initializeNetworking
  \/ initSdk
  \/ Connect
  \/ ConnectError
  \/ Disconnect
  \/ processReady
  \/ processEnding
  \/ Ack

SpecConnect == Init /\ [][NextConnect]_vars

\* Health reports in flight together with client calls.
NextCorrelation ==
  \/ initSdk
  \/ Connect
  \/ processReady
  \/ activateGameSession
  \/ Ack
  \/ Tick
  \/ HealthPredicateSettles
  \/ HealthDeadline
  \/ StartGameSession

SpecCorrelation == Init /\ [][NextCorrelation]_vars

\* The event loop runs every timer that is due: the interval callback
\* (setInterval) and the deadline of a running race (setTimeout, cleared only
\* after the race has settled).
LiveSpecHealth ==
  /\ Init
  /\ [][NextHealth]_vars
  /\ WF_vars(Tick)
  /\ WF_vars(HealthDeadline)

\* =============================================================== properties
\* The latest step was the invocation of client operation op (not the
\* settlement of an earlier call).
Issued(op) == last.op = op /\ last.kind = "step"

\* C1: activeSessionId is defined if and only if a start-session event has
\* been handled since the last session termination or transition to
\* not-ready.
C1_SessionIffStartSinceReset ==
  (gameSessionId # Undefined) <=> hist.startSinceReset

\* C2: in every reachable state, if activeSessionId is defined then ready is
\* true.
C2_SessionImpliesReady ==
  (gameSessionId # Undefined) => processReadyFlag

C4_NotReadyErrorBeforeProcessReady ==
  ( /\ instance # 0
    /\ assertNetworkInitialized
    /\ ~hist.readyCalled
    /\ \/ Issued("acceptPlayerSession")
       \/ Issued("removePlayerSession")
       \/ Issued("activateGameSession")
       \/ Issued("terminateGameSession") )
  => last.result = "ProcessNotReadyError"

\* C5 (as stated): after a successful processReady and until a start-session
\* event has been handled, every session-bound operation fails with
\* NoGameSessionError.
C5_NoGameSessionAfterReady ==
  ( /\ hist.declared
    /\ ~hist.startEver
    /\ \/ Issued("acceptPlayerSession")
       \/ Issued("removePlayerSession")
       \/ Issued("activateGameSession")
       \/ Issued("terminateGameSession")
       \/ Issued("updatePlayerSessionCreationPolicy")
       \/ Issued("getGameSessionId") )
  => last.result = "NoGameSessionError"

\* C5 (amended): after a successful processReady, while the process is still
\* ready (processEnding not invoked since) and the transport is connected,
\* and until a start-session event has been handled, every session-bound
\* operation fails with NoGameSessionError and emits nothing.
C5_NoGameSessionUntilStart ==
  ( /\ hist.declared
    /\ processReadyFlag
    /\ networking /\ socketConnected
    /\ ~hist.startEver
    /\ \/ Issued("acceptPlayerSession")
       \/ Issued("removePlayerSession")
       \/ Issued("activateGameSession")
       \/ Issued("terminateGameSession")
       \/ Issued("updatePlayerSessionCreationPolicy")
       \/ Issued("getGameSessionId") )
  => /\ last.result = "NoGameSessionError"
     /\ last.emitted = <<>>

C5_Witness ==
  /\ hist.declared
  /\ processReadyFlag
  /\ networking /\ socketConnected
  /\ ~hist.startEver
  /\ Issued("terminateGameSession")
  /\ last.result = "NoGameSessionError"

C7_SingleInstance ==
  /\ [](constructed <= 1)
  /\ [][ (instance # 0 /\ last'.op \in {"createInstance", "initSdk"})
         => /\ last'.result = "AlreadyInitializedError"
            /\ UNCHANGED <<instance, constructed, netVars, stateFields, calls,
                           timerVars>> ]_vars

C7_Witness ==
  /\ last.op = "initSdk"
  /\ last.result = "AlreadyInitializedError"
  /\ instance = 1
  /\ processReadyFlag
  /\ gameSessionId # Undefined

\* C8: processReady invoked when the transport is absent or disconnected
\* fails with the transport-not-initialized error, emits no readiness
\* declaration and starts no health-check timer.
C8_ProcessReadyNeedsTransport ==
  [][ ( /\ instance # 0
        /\ ~(networking /\ socketConnected)
        /\ last'.op = "processReady"
        /\ last'.kind = "step" )
      => /\ last'.result = "GameLiftServerNotInitializedError"
         /\ last'.emitted = <<>>
         /\ UNCHANGED <<calls, timerVars>> ]_vars

C8_Witness ==
  /\ Issued("processReady")
  /\ last.result = "GameLiftServerNotInitializedError"
  /\ networking
  /\ ~socketConnected

\* C9: the health-check timer is started only by the successful
\* acknowledgment of processReady's readiness declaration; when the
\* acknowledgment reports failure processReady rejects with
\* ServiceCallFailedError and no timer is started.
C9_HealthOnlyAfterSuccessfulAck ==
  [][ /\ (timers' > timers)
         => (last'.op = "processReady" /\ last'.kind = "settle" /\ last'.acks = <<TRUE>>)
      /\ (last'.op = "processReady" /\ last'.kind = "settle" /\ last'.acks = <<FALSE>>)
         => (last'.result = "ServiceCallFailedError" /\ UNCHANGED timerVars) ]_vars

\* C10: activateGameSession fails with ProcessNotReadyError when ready is
\* false, otherwise with the transport error when the transport is not
\* connected, otherwise with NoGameSessionError when no session id is set;
\* only when all three hold does it emit one activation notice carrying the
\* current session id.
C10_ActivatePriority ==
  (instance # 0 /\ Issued("activateGameSession"))
  => /\ ~processReadyFlag
        => (last.result = "ProcessNotReadyError" /\ last.emitted = <<>>)
     /\ (processReadyFlag /\ ~(networking /\ socketConnected))
        => (last.result = "GameLiftServerNotInitializedError" /\ last.emitted = <<>>)
     /\ (processReadyFlag /\ networking /\ socketConnected /\ gameSessionId = Undefined)
        => (last.result = "NoGameSessionError" /\ last.emitted = <<>>)
     /\ (processReadyFlag /\ networking /\ socketConnected /\ gameSessionId # Undefined)
        => /\ last.result = "pending"
           /\ last.emitted = <<[type |-> "GameSessionActivate", body |-> gameSessionId]>>

\* activateGameSession refused for readiness although the transport is down
\* and a session id is set.
C10_Witness ==
  /\ Issued("activateGameSession")
  /\ last.result = "ProcessNotReadyError"
  /\ ~socketConnected
  /\ gameSessionId # Undefined

\* C11: at the public layer, getGameSessionId and describePlayerSessions
\* invoked after initSdk but before processReady fail with
\* ProcessNotReadyError.
C11_PublicLayerNotReady ==
  ( /\ instance # 0
    /\ ~hist.readyCalled
    /\ (Issued("getGameSessionId") \/ Issued("describePlayerSessions")) )
  => last.result = "ProcessNotReadyError"

\* C12: once a start-session event has been handled, getGameSessionId
\* returns the session id of the most recently handled one; while
\* gameSessionId is undefined it fails with NoGameSessionError.
C12_GetGameSessionIdLatest ==
  (instance # 0 /\ Issued("getGameSessionId"))
  => /\ hist.lastStart # Undefined
        => (last.result = "ok" /\ last.value = hist.lastStart)
     /\ gameSessionId = Undefined
        => (last.result = "NoGameSessionError" /\ last.value = Undefined)

\* After a successful processReady and a start-session event for "s2",
\* getGameSessionId returned "s2".
C12_Witness ==
  /\ Issued("getGameSessionId")
  /\ hist.declared
  /\ hist.lastStart = "s2"
  /\ last.result = "ok"
  /\ last.value = "s2"

\* C13: an outbound call whose acknowledgment reports failure rejects with
\* ServiceCallFailedError, whatever the failure payload is.
C13_FailureAckRejects ==
  (last.kind = "settle" /\ last.acks = <<FALSE>>)
  => last.result = "ServiceCallFailedError"

\* C14: an outbound call that expects a response and is acknowledged with
\* success but without a payload rejects with ServiceCallFailedError.
C14_NoPayloadRejects ==
  ( /\ last.kind = "settle"
    /\ last.acks = <<TRUE>>
    /\ last.responseMessage # Undefined
    /\ last.response = Undefined )
  => (last.result = "ServiceCallFailedError" /\ last.value = Undefined)

C14_Witness ==
  /\ last.kind = "settle"
  /\ last.op = "describePlayerSessions"
  /\ last.acks = <<TRUE>>
  /\ last.response = Undefined
  /\ last.result = "ServiceCallFailedError"

\* C15: an outbound call that expects a response and is acknowledged with
\* success and a payload that does not decode into that response rejects
\* with ServiceCallFailedError; it never resolves.
C15_UndecodablePayloadRejects ==
  ( /\ last.kind = "settle"
    /\ last.acks = <<TRUE>>
    /\ last.responseMessage # Undefined
    /\ last.response = "garbage" )
  => last.result = "ServiceCallFailedError"

\* C16: in a health check the deadline firing first reports false and the
\* predicate's later result reports nothing; the predicate settling first
\* reports its boolean result.
C16_RaceDecidesReport ==
  [][ /\ last'.op = "healthDeadline"
         => last'.emitted = <<ReportHealth("false")>>
      /\ last'.op = "healthPredicateLate"
         => (last'.emitted = <<>> /\ calls' = calls)
      /\ (last'.op \in {"healthPredicate", "tick"} /\ last'.value \in {"true", "false"})
         => last'.emitted = <<ReportHealth(last'.value)>> ]_vars

\* The predicate of a race that the deadline decided yields true at last.
C16_Witness ==
  /\ last.op = "healthPredicateLate"
  /\ last.value = "true"

\* C17: the first tick that observes ready false cancels the repeating
\* timer, so the monitor has stopped after it, and no tick that runs while
\* ready is false issues a health report.
C17_MonitorStops ==
  (last.op = "tick" /\ ~processReadyFlag)
  => (timers = 0 /\ last.emitted = <<>>)

\* C18: a failure of the health predicate or of the report call never
\* propagates out of the tick.
C18_TickCatchesFailures ==
  last.op = "tick" => last.result = "ok"

\* A tick started a health check while ready was true.
TickBegan == last.op = "tick" /\ processReadyFlag /\ last.cbs = <<"onHealthCheck">>

\* The latest step handed a health report to the transport.
Reported == last.emitted # <<>> /\ last.emitted[1].type = "ReportHealth"

\* The health predicate of the latest step threw or rejected.
PredicateFailed ==
  \/ last.op = "tick" /\ last.result = "unhandledRejection"
  \/ last.op = "healthPredicate" /\ last.value = "rejects"

C20_TerminateNeverRaises ==
  last.op = "TerminateProcess" => last.result = "ok"

\* C21: processEnding on a connected transport leaves ready false and emits
\* exactly one shutdown notification, also when ready was already false.
C21_ProcessEndingNotifies ==
  (Issued("processEnding") /\ networking /\ socketConnected)
  => /\ ~processReadyFlag
     /\ last.result = "pending"
     /\ last.emitted = <<[type |-> "ProcessEnding", body |-> Undefined]>>

\* A processEnding issued when processReady had been called and ready was
\* already false again sent its notification.
C21_Witness ==
  /\ Issued("processEnding")
  /\ hist.readyCalled
  /\ ~last.readyBefore
  /\ ~processReadyFlag
  /\ last.emitted = <<[type |-> "ProcessEnding", body |-> Undefined]>>

\* The outbound message each client operation is named after.
MessageNamedAfter(op) ==
  CASE op = "processReady" -> "ProcessReady"
    [] op = "processEnding" -> "ProcessEnding"
    [] op = "activateGameSession" -> "GameSessionActivate"
    [] op = "terminateGameSession" -> "GameSessionTerminate"
    [] op = "acceptPlayerSession" -> "AcceptPlayerSession"
    [] op = "removePlayerSession" -> "RemovePlayerSession"
    [] op = "describePlayerSessions" -> "DescribePlayerSessionsRequest"
    [] op = "updatePlayerSessionCreationPolicy" -> "UpdatePlayerSessionCreationPolicy"
    [] op = "backfillMatchmaking" -> "BackfillMatchmakingRequest"
    [] op = "stopMatchmaking" -> "StopMatchmakingRequest"
    [] op = "getInstanceCertificate" -> "GetInstanceCertificate"
    [] OTHER -> Undefined

\* C22: a client operation whose preconditions hold emits exactly one
\* outbound message, named after the operation; a call that fails after its
\* round trip is surfaced to the caller as a rejection and emits nothing
\* again.
C22_OneMessagePerInvocation ==
  /\ ( /\ last.kind = "step"
       /\ MessageNamedAfter(last.op) # Undefined
       /\ last.result = "pending" )
     => /\ Len(last.emitted) = 1
        /\ last.emitted[1].type = MessageNamedAfter(last.op)
  /\ last.kind = "settle"
     => /\ last.emitted = <<>>
        /\ last.acks = <<FALSE>> => last.result = "ServiceCallFailedError"

\* C23: a start-session event handled while ready is true sets
\* activeSessionId to the event's session first, then invokes
\* onStartSession, which sees that id, and invokes ack(true) only after the
\* callback has returned; ack(false) is never invoked.
C23_StartWhileReady ==
  ( /\ Issued("StartGameSession")
    /\ last.readyBefore
    /\ last.result # "TypeError" )
  => /\ gameSessionId = hist.lastStart
     /\ last.cbs = <<"onStartGameSession">>
     /\ last.value = hist.lastStart
     /\ \A i \in 1..Len(last.acks) : last.acks[i] # FALSE
     /\ last.result = "ok" => last.acks = (IF last.hasAck THEN <<TRUE>> ELSE <<>>)
     /\ last.result # "ok" => last.acks = <<>>

\* A session started while ready: the callback saw the event's id and the
\* event was acknowledged with true.
C23_Witness ==
  /\ Issued("StartGameSession")
  /\ last.readyBefore
  /\ last.value = "s2"
  /\ gameSessionId = "s2"
  /\ last.cbs = <<"onStartGameSession">>
  /\ last.acks = <<TRUE>>

\* C24: a start-session or update-session event handled while ready is false
\* is acknowledged with false and then handled all the same: the user
\* callback fires (for start-session the session id is set) and ack(true)
\* follows.
C24_NotReadyStillDelivers ==
  ( /\ last.kind = "step"
    /\ last.op \in {"StartGameSession", "UpdateGameSession"}
    /\ last.hasAck
    /\ ~last.readyBefore )
  => /\ last.acks = <<FALSE, TRUE>>
     /\ last.op = "StartGameSession"
        => (last.cbs = <<"onStartGameSession">> /\ gameSessionId = hist.lastStart)
     /\ (last.op = "UpdateGameSession" /\ callbacks.onUpdateGameSession # Undefined)
        => last.cbs = <<"onUpdateGameSession">>

\* A step of the update-session handler.
UpdateHandled == last'.op = "UpdateGameSession" /\ last'.kind = "step"

\* The update-session handler wrote none of the state fields.
UpdateFrame ==
  /\ processReadyFlag' = processReadyFlag
  /\ gameSessionId' = gameSessionId
  /\ terminationTime' = terminationTime
  /\ callbacks' = callbacks

\* C25 as stated: an update-session event invokes onUpdateSession exactly
\* when the latest processReady registered one, always ends with ack(true),
\* and leaves ready, activeSessionId and terminationTime unchanged.
C25_UpdateAlwaysAcks ==
  [][UpdateHandled
     => /\ (last'.cbs = <<"onUpdateGameSession">>) <=> (callbacks.onUpdateGameSession # Undefined)
        /\ last'.hasAck
           => (last'.acks # <<>> /\ last'.acks[Len(last'.acks)] = TRUE)
        /\ UpdateFrame]_vars

\* C25 amended: as above, except that ack(true) is not invoked when the
\* callback throws.
C25_UpdateAcksUnlessCallbackThrows ==
  [][UpdateHandled
     => /\ (last'.cbs = <<"onUpdateGameSession">>) <=> (callbacks.onUpdateGameSession # Undefined)
        /\ last'.cbs \in {<<>>, <<"onUpdateGameSession">>}
        /\ (last'.hasAck /\ callbacks.onUpdateGameSession # "throws")
           => /\ last'.result = "ok"
              /\ last'.acks = (IF processReadyFlag THEN <<TRUE>> ELSE <<FALSE, TRUE>>)
        /\ callbacks.onUpdateGameSession = "throws"
           => /\ last'.result = "callbackError"
              /\ \A i \in 1..Len(last'.acks) : last'.acks[i] # TRUE
        /\ UpdateFrame]_vars

\* An update handled while ready with a registered callback that returned,
\* acknowledged with true, the session of an earlier start event still set.
C25_Witness ==
  /\ Issued("UpdateGameSession")
  /\ last.readyBefore
  /\ processReadyFlag
  /\ gameSessionId # Undefined
  /\ last.cbs = <<"onUpdateGameSession">>
  /\ last.acks = <<TRUE>>

\* A step of the terminate-process handler (the event's payload decoded).
TerminateHandled ==
  /\ last'.op = "TerminateProcess"
  /\ last'.kind = "step"
  /\ last'.result = "ok"

\* C26: a terminate-process event handled while ready is false changes
\* nothing and invokes no callback; while ready is true it records the
\* termination time and invokes onProcessTerminate if registered. No ack is
\* sent in either case; ready and activeSessionId are unchanged.
C26_TerminateProcess ==
  [][TerminateHandled
     => /\ processReadyFlag' = processReadyFlag
        /\ gameSessionId' = gameSessionId
        /\ callbacks' = callbacks
        /\ last'.acks = <<>>
        /\ last'.emitted = <<>>
        /\ calls' = calls
        /\ IF processReadyFlag
           THEN /\ terminationTime' = last'.value
                /\ (last'.cbs = <<"onProcessTerminate">>)
                   <=> (callbacks.onProcessTerminate # Undefined)
                /\ last'.cbs \in {<<>>, <<"onProcessTerminate">>}
           ELSE /\ terminationTime' = terminationTime
                /\ last'.cbs = <<>>]_vars

\* A terminate-process event was ignored although a callback is registered:
\* ready was false, no termination time was recorded.
C26_Witness ==
  /\ Issued("TerminateProcess")
  /\ last.result = "ok"
  /\ ~last.readyBefore
  /\ callbacks.onProcessTerminate # Undefined
  /\ last.cbs = <<>>
  /\ terminationTime = Undefined

\* A terminate-process event handled while ready: time recorded, callback
\* invoked.
C26_WitnessReady ==
  /\ Issued("TerminateProcess")
  /\ last.readyBefore
  /\ terminationTime = last.value
  /\ last.cbs = <<"onProcessTerminate">>

\* C27: terminateGameSession goes out exactly when the transport is
\* connected and a session id is set; it sends one termination notice
\* carrying that id; neither the call nor its acknowledgment changes
\* activeSessionId or ready.
C27_TerminateGameSession ==
  [][last'.op = "terminateGameSession"
     => /\ gameSessionId' = gameSessionId
        /\ processReadyFlag' = processReadyFlag
        /\ hasGameSession' = hasGameSession
        /\ last'.kind = "step"
           => /\ (last'.result = "pending")
                 <=> (assertNetworkInitialized /\ gameSessionId # Undefined)
              /\ last'.result = "pending"
                 => last'.emitted = <<[type |-> "GameSessionTerminate",
                                       body |-> gameSessionId]>>
              /\ last'.result # "pending" => last'.emitted = <<>>]_vars

\* The service acknowledged a termination notice and the session id is still
\* set: a session-bound call passes its session precondition.
C27_Witness ==
  /\ last.op = "terminateGameSession"
  /\ last.kind = "settle"
  /\ last.result = "resolved"
  /\ gameSessionId = "s2"
  /\ acceptPlayerSessionCheck = "ok"

\* The errors raised by precondition checks.
PreconditionErrors ==
  {"NotInitializedError", "AlreadyInitializedError",
   "GameLiftServerNotInitializedError", "ProcessNotReadyError",
   "NoGameSessionError"}

\* C28: an invocation that fails with a precondition error has emitted no
\* outbound message and registered no acknowledgment closure.
C28_PreconditionErrorEmitsNothing ==
  [][(last'.kind = "step" /\ last'.result \in PreconditionErrors)
     => (last'.emitted = <<>> /\ calls' = calls)]_vars

\* A session-bound call failed on the session precondition while the
\* transport was connected and the process ready: nothing went out.
C28_Witness ==
  /\ Issued("acceptPlayerSession")
  /\ last.result = "NoGameSessionError"
  /\ assertNetworkInitialized
  /\ processReadyFlag
  /\ last.emitted = <<>>
  /\ calls = <<>>

\* The operations and handlers that may write a state field.
Mutators ==
  {"processReady", "processEnding", "StartGameSession", "UpdateGameSession",
   "TerminateProcess"}

\* C29: ready, activeSessionId, terminationTime and the callbacks change only
\* in a call of processReady or processEnding or in one of the three inbound
\* handlers: every other operation, every acknowledgment (success or
\* failure) and every step of the health monitor leaves them unchanged.
C29_OnlyMutatorsWrite ==
  [][stateFields' # stateFields
     => (last'.kind = "step" /\ last'.op \in Mutators)]_vars

\* With all four fields set, a matchmaking call was rejected by the service.
C29_Witness ==
  /\ last.op = "backfillMatchmaking"
  /\ last.kind = "settle"
  /\ last.result = "ServiceCallFailedError"
  /\ processReadyFlag
  /\ gameSessionId # Undefined
  /\ terminationTime # Undefined
  /\ callbacks # NoCallbacks

\* With all four fields set, a health check began.
C29_WitnessTick ==
  /\ last.op = "tick"
  /\ processReadyFlag
  /\ gameSessionId # Undefined
  /\ terminationTime # Undefined

\* The i-th pending call is the one the step settled: it is gone and every
\* other pending call is still pending, untouched and in place.
SettledAlone(i) ==
  /\ calls[i].op = last'.op
  /\ calls[i].responseMessage = last'.responseMessage
  /\ Len(calls') = Len(calls) - 1
  /\ \A j \in 1..Len(calls') : calls'[j] = (IF j < i THEN calls[j] ELSE calls[j + 1])

C30_WitnessReportFirst ==
  /\ last.kind = "settle"
  /\ last.op = "reportHealth"
  /\ Len(calls) = 1
  /\ calls[1].op = "activateGameSession"

\* C31: a call leaves the set of pending calls only by being settled: by its
\* acknowledgment, or, when the channel disconnects, by the disconnect
\* handler, which settles every call still awaiting its acknowledgment.
C31_PendingUntilAckOrDisconnect ==
  [][Len(calls') < Len(calls)
     => \/ (last'.kind = "settle" /\ Len(calls') = Len(calls) - 1)
        \/ /\ last'.op = "disconnect"
           /\ Len(last'.cbs) = Len(calls) - Len(calls')]_vars

\* A step of one of the three inbound handlers.
InboundHandled ==
  /\ last'.kind = "step"
  /\ last'.op \in {"StartGameSession", "UpdateGameSession", "TerminateProcess"}

\* The state fields after the step are those of applying the one event just
\* delivered to the fields before the step.
AppliedInOrder ==
  /\ processReadyFlag' = processReadyFlag
  /\ callbacks' = callbacks
  /\ gameSessionId' =
       (IF last'.op = "StartGameSession" /\ hist' # hist THEN hist'.lastStart
        ELSE gameSessionId)
  /\ terminationTime' =
       (IF last'.op = "TerminateProcess" /\ last'.result = "ok" /\ processReadyFlag
        THEN last'.value ELSE terminationTime)

InboundDispatched ==
  last'.op \in {"StartGameSession", "UpdateGameSession", "TerminateProcess"}

\* C33: the listeners of the three inbound events are attached when the
\* transport is created and at no other time; a disconnect removes them; an
\* inbound event reaches a handler only while they are attached.
C33_SubscriptionsEndAtDisconnect ==
  [][/\ last'.op = "disconnect" => ~handlersOn'
     /\ (handlersOn' /\ ~handlersOn) => last'.op \in {"initSdk", "initializeNetworking"}
     /\ InboundDispatched => (handlersOn /\ handlersOn')
     /\ ~handlersOn => (stateFields' = stateFields \/ last'.op \in {"processReady", "processEnding", "initSdk", "createInstance"})]_vars

\* After a disconnect the listeners are gone although a session had been
\* started over this channel before.
C33_Witness ==
  /\ last.op = "disconnect"
  /\ ~handlersOn
  /\ networking
  /\ gameSessionId # Undefined
  /\ terminationTime # Undefined

\* C34: the promise of performConnect is settled by the first connection
\* event and by nothing else: resolved by the connection-established event,
\* with the channel connected, rejected by a connection-error event that
\* comes first; an event after that settles nothing.
C34_ConnectSettlesOnFirstEvent ==
  [][/\ (connectPending /\ ~connectPending')
        => /\ last'.op = "connect"
           /\ \/ (last'.result = "resolved" /\ socketConnected')
              \/ (last'.result = "rejected" /\ ~socketConnected')
     /\ (last'.op = "connect" /\ last'.result = "resolved")
        => (connectPending /\ ~socketConnected /\ socketConnected')
     /\ (last'.op = "connect" /\ last'.result = "rejected")
        => (connectPending /\ ~socketConnected')
     /\ (last'.op = "connect" /\ ~connectPending)
        => last'.result = "ok"
     /\ (connectPending /\ connectPending') => ~socketConnected']_vars

\* The connection attempt was rejected by a connection error and the channel
\* is not connected.
C34_Witness ==
  /\ last.op = "connect"
  /\ last.result = "rejected"
  /\ ~connectPending
  /\ ~socketConnected
  /\ networking

\* The channel connected after the attempt had been rejected: nothing was
\* settled a second time.
C34_WitnessLateConnect ==
  /\ last.op = "connect"
  /\ last.result = "ok"
  /\ socketConnected
  /\ handlersOn
  /\ calls = <<>>
  /\ ~hist.readyCalled

\* C38: a connection error leaves the state object of that initSdk installed
\* with its unconnected transport; from then on every initSdk fails with
\* AlreadyInitializedError and changes nothing, and no operation creates a
\* transport or starts a connection attempt again.
C38_FailedInitSdkStaysInstalled ==
  [][/\ (last'.op = "connect" /\ last'.result = "rejected")
        => (instance' = instance /\ instance' # 0 /\ networking' /\ ~socketConnected')
     /\ instance # 0 => instance' = instance
     /\ (last'.op = "initSdk" /\ instance # 0)
        => /\ last'.result = "AlreadyInitializedError"
           /\ netVars' = netVars
           /\ stateFields' = stateFields
     /\ networking => (networking' /\ (connectPending' => connectPending))]_vars

\* initSdk was called again after its connection attempt had failed.
C38_Witness ==
  /\ Issued("initSdk")
  /\ last.result = "AlreadyInitializedError"
  /\ instance = 1
  /\ constructed = 1
  /\ networking
  /\ ~connectPending
  /\ ~socketConnected
  /\ handlersOn

\* C35: whatever processReady and processEnding calls were made, at most one
\* interval timer of the health monitor is live, and it is the one whose
\* handle the state object holds.
C35_AtMostOneTimer ==
  /\ timers <= 1
  /\ timers = 1 => healthcheckTimeout

\* C36: for every start-session or update-session event that comes with an
\* acknowledgment function, that function is invoked exactly once.
C36_AckExactlyOnce ==
  ( /\ last.kind = "step"
    /\ last.op \in {"StartGameSession", "UpdateGameSession"}
    /\ last.hasAck )
  => Len(last.acks) = 1

\* C40: a start-session or update-session event whose payload does not
\* decode invokes no user callback, leaves activeSessionId as it was and is
\* not acknowledged with true.
C40_UndecodableEventDropped ==
  [][( /\ last'.kind = "step"
       /\ last'.op \in {"StartGameSession", "UpdateGameSession"}
       /\ last'.value = "null" )
     => /\ last'.cbs = <<>>
        /\ gameSessionId' = gameSessionId
        /\ \A i \in 1..Len(last'.acks) : last'.acks[i] # TRUE]_vars

\* C37: once the channel has disconnected, a reconnection makes connected()
\* true again, so that processReady and processEnding pass the transport
\* precondition and emit, but no inbound event is dispatched any more: no
\* listener step happens while the listeners are detached.
C37_ReconnectedChannelIsDeaf ==
  [][/\ ~handlersOn => ~InboundDispatched
     /\ (networking /\ ~handlersOn) => (networking' /\ ~handlersOn')
     /\ ( /\ last'.kind = "step"
          /\ last'.op \in {"processReady", "processEnding"}
          /\ networking /\ socketConnected )
        => (last'.result = "pending" /\ Len(last'.emitted) = 1)]_vars

\* After a disconnect and a reconnection processReady went out over the
\* channel whose listeners are gone.
C37_Witness ==
  /\ Issued("processReady")
  /\ last.result = "pending"
  /\ networking
  /\ socketConnected
  /\ ~handlersOn
  /\ Len(calls) = 1

\* C39: a client operation that fails with a precondition error leaves
\* ready, activeSessionId, terminationTime and the callbacks as they were.
C39_PreconditionErrorChangesNothing ==
  [][(last'.kind = "step" /\ last'.result \in PreconditionErrors)
     => stateFields' = stateFields]_vars

====
